---- MODULE Spec2Model ----
(***************************************************************************)
(* Trading decision and position engine of the somber bot:                 *)
(* TradingBot (src/trading_bot.py) driven by the scheduler thread of       *)
(* SomberTradingBot (src/main.py) and by the handlers of                   *)
(* TelegramTradingBot (src/telegram_bot.py).                               *)
(*                                                                         *)
(* Numbers.  Money and prices are integers (quote currency units);         *)
(* protective prices are kept in hundredths (price * (100 -/+ percent));   *)
(* a quantity is the exact fraction trade_amount / current_price, kept as  *)
(* [num, den]; a confidence is kept in thousandths.                        *)
(*                                                                         *)
(* Threads.  "periodic" is the scheduler thread (main.py:96-110), which    *)
(* runs execute_trade in an event loop of its own (main.py:48); "manual"   *)
(* is the thread of the Telegram event loop.  execute_trade never really   *)
(* suspends (every coroutine it awaits runs synchronously), so handlers of *)
(* the Telegram loop do not interleave with a manual trade, while the two  *)
(* threads interleave at every gateway call.                               *)
(***************************************************************************)
EXTENDS Integers, Sequences, FiniteSets, TLC

\* ------------------------------------------------------------ bounds
MaxDay == 1
MaxOrders == 3

\* ------------------------------------------- configuration defaults
trade_amount == 10
stop_loss_percent == 2
take_profit_percent == 5
max_daily_loss == 100
min_balance == 50
MIN_CONFIDENCE == 300
SHORT_WINDOW == 20
LONG_WINDOW == 50

default_symbol == "BTC/USDT"
Symbols == {"BTC/USDT", "ETH/USDT"}
AssignedSymbols == {"BTC/USDT", "ETH/USDT", "ADA/USDT"}
\* MAX_POSITIONS as configured; the default is 3
MaxPositionsChoices == {1, 2}
AssignedMaxPositions == {1, 2, 3}
\* values a harness assigns to bot.daily_pnl (test_functionality.py:104)
AssignedPnl == {-150, -100, -50, 0}

\* the scheduler thread, the Telegram event loop, a synchronous caller
Procs == {"periodic", "manual"}
Callers == Procs \cup {"direct"}

VARIABLES
    max_positions,    \* self.max_positions
    policy,           \* which evaluator self.simple_strategy is bound to
    account,          \* what exchange.fetch_balance answers
    market,           \* what exchange.fetch_ticker may answer
    boot,             \* bot.py: the environment and how far startup has got
    is_trading,       \* self.is_trading
    positions,        \* self.positions: symbol -> position
    daily_pnl,        \* self.daily_pnl
    last_reset_date,  \* self.last_reset_date
    today,            \* datetime.now().date()
    orders,           \* orders the exchange has accepted, oldest first
    call              \* per caller: the invocation in flight and its locals

vars == <<max_positions, policy, account, market, boot, is_trading,
          positions, daily_pnl, last_reset_date, today, orders, call>>

\* ------------------------------------------------------- small helpers
Div(a, b) == [num |-> a, den |-> b]

Min(a, b) == IF a < b THEN a ELSE b

\* ------------------------------------------------- gateway replies
BalanceFailure == [ok |-> FALSE, usdt |-> FALSE, free |-> 0]

LowBalance == [ok |-> TRUE, usdt |-> TRUE, free |-> 40]

BalanceReplies ==
    {BalanceFailure, [ok |-> TRUE, usdt |-> FALSE, free |-> 0]}
    \cup {[ok |-> TRUE, usdt |-> TRUE, free |-> f] : f \in {40, 50}}

TickerFailure == [ok |-> FALSE, has_last |-> FALSE, last |-> 0]

\* a quote the exchange answers with a price below zero
NegativeQuote == [ok |-> TRUE, has_last |-> TRUE, last |-> -100]

TickerReplies ==
    {TickerFailure, [ok |-> TRUE, has_last |-> FALSE, last |-> 0]}
    \cup {[ok |-> TRUE, has_last |-> TRUE, last |-> l] : l \in {0, 100}}

AnyTickerReplies == TickerReplies \cup {NegativeQuote}

\* a replacement evaluator may answer any of these (signal, confidence)
PluggedSignals ==
    {<<"hold", 0>>, <<"buy", 500>>, <<"sell", 500>>, <<"buy", 200>>}

\* a replacement evaluator answering at and next to the 0.3 threshold
ThresholdSignals ==
    {<<"buy", 300>>, <<"buy", 299>>, <<"sell", 300>>, <<"hold", 1000>>}

\* ------------------------------------------------------ asyncio.run
\* asyncio.run(coro) returns coro's value, and raises RuntimeError when
\* the calling thread already runs an event loop (coro is then never run).
asyncio_run(in_loop, value) ==
    IF in_loop THEN [raised |-> TRUE, value |-> value]
    ELSE [raised |-> FALSE, value |-> value]

\* -------------------------------------------------------- get_balance
\* the balance dict: fetch_balance's answer, {} when it raises
get_balance(reply) ==
    IF reply.ok THEN reply ELSE [ok |-> TRUE, usdt |-> FALSE, free |-> 0]

\* balance.get('USDT', {}).get('free', 0)
usdt_free(balance) == IF balance.usdt THEN balance.free ELSE 0

\* ------------------------------------------------ check_risk_management
\* mutant: the date moves on but the day's PnL is kept
RollOver_keeps_pnl(pnl, last, current_date) ==
    IF current_date > last
    THEN [daily_pnl |-> pnl, last_reset_date |-> current_date]
    ELSE [daily_pnl |-> pnl, last_reset_date |-> last]

\* mutant: the PnL is reset but the date of the reset is not kept
RollOver_keeps_date(pnl, last, current_date) ==
    IF current_date > last
    THEN [daily_pnl |-> 0, last_reset_date |-> last]
    ELSE [daily_pnl |-> pnl, last_reset_date |-> last]

\* mutant: a new day starts with the loss limit booked
RollOver_books_loss(pnl, last, current_date) ==
    IF current_date > last
    THEN [daily_pnl |-> -max_daily_loss, last_reset_date |-> current_date]
    ELSE [daily_pnl |-> pnl, last_reset_date |-> last]

\* lines 184-187: the day rollover
RollOver(pnl, last, current_date) ==
    IF current_date > last
    THEN [daily_pnl |-> 0, last_reset_date |-> current_date]
    ELSE [daily_pnl |-> pnl, last_reset_date |-> last]

\* mutant: the loss limit itself still passes
DailyLossReached_strict(pnl) == pnl < -max_daily_loss

\* lines 190-192
DailyLossReached(pnl) == pnl <= -max_daily_loss

\* lines 195-202: TRUE when the balance check returns False
BalanceTooLow(in_loop, reply) ==
    LET got == asyncio_run(in_loop, get_balance(reply))
    IN  IF got.raised THEN FALSE
        ELSE usdt_free(got.value) < min_balance

\* mutant: the position count is not checked
PositionsFull_never(npos, maxpos) == FALSE

\* mutant: one position too many is let through
PositionsFull_strict(npos, maxpos) == npos > maxpos

\* lines 205-207
PositionsFull(npos, maxpos) == npos >= maxpos

\* the whole gate: new daily_pnl and last_reset_date, result, reason logged
check_risk_management(pnl, last, current_date, npos, maxpos, in_loop, reply) ==
    LET r == RollOver(pnl, last, current_date)
        reason ==
            IF DailyLossReached(r.daily_pnl) THEN "daily_loss"
            ELSE IF BalanceTooLow(in_loop, reply) THEN "balance"
            ELSE IF PositionsFull(npos, maxpos) THEN "max_positions"
            ELSE "allowed"
    IN  [daily_pnl |-> r.daily_pnl,
         last_reset_date |-> r.last_reset_date,
         result |-> (reason = "allowed"),
         reason |-> reason]

\* ------------------------------------------------------ signal evaluator
RECURSIVE SumSeq(_)
SumSeq(s) == IF s = <<>> THEN 0 ELSE Head(s) + SumSeq(Tail(s))

\* sum(prices[-period:]); the caller divides by period.  The slice is the
\* whole list when it has fewer than period elements.
SumLast(prices, period) ==
    LET first == IF Len(prices) > period THEN Len(prices) - period + 1 ELSE 1
    IN  SumSeq(SubSeq(prices, first, Len(prices)))

\* mutant: only the short window is required of the history
SmaIsNone_short(prices, period) == Len(prices) < SHORT_WINDOW

\* calculate_sma is None when len(prices) < period
SmaIsNone(prices, period) == Len(prices) < period

\* min(x * 100, 1.0) for x = n / d with d > 0, in thousandths (the
\* product is only formed below the clamp, where it stays small)
Confidence(n, d) ==
    IF n * 100 >= d THEN 1000 ELSE Min((n * 100 * 1000) \div d, 1000)

\* mutant: the evaluator without its try block
simple_strategy_unguarded(in_loop, closes) ==
    IF asyncio_run(in_loop, closes).raised THEN <<"raise", 0>>
    ELSE <<"hold", 0>>

\* simple_strategy on the closes of get_ohlcv (<<>> when the fetch fails)
simple_strategy(in_loop, closes) ==
    LET got == asyncio_run(in_loop, closes)
    IN  IF got.raised THEN <<"hold", 0>>
        ELSE IF got.value = <<>> THEN <<"hold", 0>>
        ELSE IF SmaIsNone(got.value, SHORT_WINDOW)
                \/ SmaIsNone(got.value, LONG_WINDOW) THEN <<"hold", 0>>
        ELSE
            LET s20 == SumLast(got.value, SHORT_WINDOW)
                s50 == SumLast(got.value, LONG_WINDOW)
                cur == got.value[Len(got.value)]
                \* sma_20 ? sma_50  <=>  s20 * 50 ? s50 * 20
                a == s20 * LONG_WINDOW
                b == s50 * SHORT_WINDOW
            IN  IF a > b /\ cur * SHORT_WINDOW > s20
                THEN IF b = 0 THEN <<"hold", 0>>
                     ELSE <<"buy", Confidence(a - b, b)>>
                ELSE IF a < b /\ cur * SHORT_WINDOW < s20
                THEN IF a = 0 THEN <<"hold", 0>>
                     ELSE <<"sell", Confidence(b - a, a)>>
                ELSE <<"hold", 0>>

\* ------------------------------------------------------ price histories
\* n closes of v
Rep(n, v) == [i \in 1..n |-> v]

\* closes of the candles get_ohlcv answers: lead closes of a, then tail
\* closes of b, then the latest close c
History(lead, a, tail, b, c) == Rep(lead, a) \o Rep(tail, b) \o <<c>>

\* 50 closes whose 20-close average (151.5) is 1% above the 50-close
\* average (150), the latest close (161) above both
OnePercentUp == History(30, 149, 19, 151, 161)

\* what get_ohlcv answers inside execute_trade ([] when the fetch fails)
HistoryReplies == {<<>>, <<100, 100>>, OnePercentUp}

\* histories handed to a direct call of simple_strategy by a patched
\* get_ohlcv (test_functionality.py:64-71): 0 to 51 closes
HistLeads == {0, 10, 30, 31}
HistTails == {0, 9, 18, 19}
HistLeadCloses == {100, 149}
HistTailCloses == {0, 90, 100, 151}
HistLastCloses == {80, 100, 161}

Histories ==
    {<<>>} \cup
    {History(lead, a, tail, b, c) :
        lead \in HistLeads, a \in HistLeadCloses, tail \in HistTails,
        b \in HistTailCloses, c \in HistLastCloses}

\* mutant: a failed fetch answers the last known quote
get_ticker_stale(reply) ==
    IF reply.ok THEN reply ELSE [ok |-> TRUE, has_last |-> TRUE, last |-> 100]

\* ------------------------------------------------------------ get_ticker
\* the ticker dict: fetch_ticker's answer, {} when it raises
get_ticker(reply) ==
    IF reply.ok THEN reply ELSE [ok |-> TRUE, has_last |-> FALSE, last |-> 0]

\* ticker.get('last', 0)
last_price(ticker) == IF ticker.has_last THEN ticker.last ELSE 0

\* ------------------------------------------------ protective prices
OppositeSide(side) == IF side = "buy" THEN "sell" ELSE "buy"

\* mutant: the stop of a short entry is put on the long side
stop_loss_price_unmirrored(side, entry_price) ==
    entry_price * (100 - stop_loss_percent)

\* stop_loss_price, in hundredths
stop_loss_price(side, entry_price) ==
    IF side = "buy" THEN entry_price * (100 - stop_loss_percent)
    ELSE entry_price * (100 + stop_loss_percent)

\* take_profit_price, in hundredths
take_profit_price(side, entry_price) ==
    IF side = "buy" THEN entry_price * (100 + take_profit_percent)
    ELSE entry_price * (100 - take_profit_percent)

\* ------------------------------------------------- config.py and bot.py
\* A string is the sequence of its characters; None is a value of its own.
None == [none |-> TRUE, text |-> <<>>]

Text(t) == [none |-> FALSE, text |-> t]

\* values of SOMNIA_API_URL, TELEGRAM_BOT_TOKEN, DEBUG and LOG_LEVEL in the
\* environment (None: the variable is unset)
UrlValues ==
    {None, Text(<<>>),
     Text(<<"h", "t", "t", "p", ":", "/", "/", "a">>),
     Text(<<"h", "t", "t", "p", "s", ":", "/", "/", "a">>),
     Text(<<"f", "t", "p", ":", "/", "/", "a">>),
     Text(<<"H", "T", "T", "P", ":", "/", "/", "a">>),
     Text(<<"a", ".", "i", "o">>)}

TokenValues ==
    {None, Text(<<>>), Text(<<"1", ":", "k">>), Text(<<"1", "k">>),
     Text(<<":">>)}

DebugValues == {None, Text(<<"T", "r", "u", "e">>), Text(<<"n", "o">>)}

LogLevelValues == {None, Text(<<"d", "e", "b", "u", "g">>)}

Environments ==
    [url : UrlValues, token : TokenValues, debug : DebugValues,
     log_level : LogLevelValues]

\* os.getenv(key, default)
os_getenv(value, default) == IF value.none THEN default ELSE value

\* 'not value': None and the empty string are false
Falsy(value) == value.none \/ value.text = <<>>

\* Config._get_env_var
get_env_var(value, required, default) ==
    LET got == os_getenv(value, default)
    IN  IF required /\ Falsy(got) THEN [raised |-> TRUE, value |-> None]
        ELSE [raised |-> FALSE, value |-> got]

LowerChar(ch) ==
    CASE ch = "T" -> "t" [] ch = "H" -> "h" [] ch = "P" -> "p" [] OTHER -> ch

UpperChar(ch) ==
    CASE ch = "d" -> "D" [] ch = "e" -> "E" [] ch = "b" -> "B"
      [] ch = "u" -> "U" [] ch = "g" -> "G" [] ch = "t" -> "T"
      [] ch = "c" -> "C" [] ch = "s" -> "S" [] ch = "h" -> "H"
      [] OTHER -> ch

\* str.lower and str.upper on the characters that occur
Lower(t) == [i \in 1..Len(t) |-> LowerChar(t[i])]
Upper(t) == [i \in 1..Len(t) |-> UpperChar(t[i])]

NoConfig ==
    [somnia_api_url |-> None, telegram_bot_token |-> None, debug |-> FALSE,
     log_level |-> <<>>]

\* Config._load_config: the first required variable that is missing raises
load_config(env) ==
    LET url == get_env_var(env.url, TRUE, None)
        token == get_env_var(env.token, TRUE, None)
        debug == get_env_var(env.debug, FALSE, Text(<<"f", "a", "l", "s", "e">>))
        level == get_env_var(env.log_level, FALSE, Text(<<"I", "N", "F", "O">>))
    IN  IF url.raised \/ token.raised
        THEN [raised |-> TRUE, config |-> NoConfig]
        ELSE [raised |-> FALSE,
              config |-> [somnia_api_url |-> url.value,
                          telegram_bot_token |-> token.value,
                          debug |-> Lower(debug.value.text)
                                        = <<"t", "r", "u", "e">>,
                          log_level |-> Upper(level.value.text)]]

\* str.startswith(prefix)
StartsWith(t, prefix) ==
    Len(t) >= Len(prefix) /\ SubSeq(t, 1, Len(prefix)) = prefix

\* ch in t
Contains(t, ch) == \E i \in 1..Len(t) : t[i] = ch

\* lines 59-62 of Config.validate: the errors about the API URL
UrlErrors(url) ==
    IF Falsy(url) THEN <<"SOMNIA_API_URL is required">>
    ELSE IF ~(StartsWith(url.text, <<"h", "t", "t", "p", ":", "/", "/">>)
              \/ StartsWith(url.text, <<"h", "t", "t", "p", "s", ":", "/", "/">>))
         THEN <<"SOMNIA_API_URL must be a valid URL">>
         ELSE <<>>

\* mutant: the token's format is not looked at
TokenErrors_lenient(token) ==
    IF Falsy(token) THEN <<"TELEGRAM_BOT_TOKEN is required">> ELSE <<>>

\* lines 64-67: the errors about the bot token
TokenErrors(token) ==
    IF Falsy(token) THEN <<"TELEGRAM_BOT_TOKEN is required">>
    ELSE IF ~Contains(token.text, ":")
         THEN <<"TELEGRAM_BOT_TOKEN appears to be invalid format">>
         ELSE <<>>

\* Config.validate: the list of errors; ValueError is raised unless empty
validate(config) ==
    UrlErrors(config.somnia_api_url) \o TokenErrors(config.telegram_bot_token)

\* the trading bot runs without config.py: nothing is being started
BootOff ==
    [stage |-> "off",
     env |-> [url |-> None, token |-> None, debug |-> None, log_level |-> None],
     config |-> NoConfig, errors |-> <<>>]

\* ---------------------------------------------------------------- state
EmptyLedger == [s \in {} |-> 0]

\* what one evaluation of check_risk_management saw and answered
NoGate ==
    [before |-> 0, rolled |-> FALSE, daily_pnl |-> 0, npos |-> 0,
     result |-> TRUE, reason |-> "none"]

\* the dict get_status returns
NoStatus == [is_trading |-> FALSE, positions |-> 0, daily_pnl |-> 0]

\* order, stop_order and tp_order hold the id of the order the exchange
\* answered, 0 for {} or None; closes is the history get_ohlcv has to offer
\* when simple_strategy is called; shown is the set of instruments a
\* report lists; args is context.args of the /trade command that started
\* the invocation
IdleCall ==
    [pc |-> "idle", symbol |-> "", gate |-> NoGate, status |-> NoStatus,
     closes |-> <<>>, signal |-> "", confidence |-> 0,
     quote |-> TickerFailure, current_price |-> 0, amount |-> Div(0, 1),
     order |-> 0, stop_order |-> 0, tp_order |-> 0, sent |-> 0,
     wrote |-> FALSE, exit |-> "", ret |-> 0, shown |-> {}, args |-> <<>>]

NPositions == Cardinality(DOMAIN positions)

\* TradingBot.__init__ : the state after construction.  The account holds
\* less than min_balance; no step of the program reads the balance, since
\* its only caller of the gate is execute_trade (see asyncio_run).
Init ==
    /\ max_positions \in MaxPositionsChoices
    /\ policy \in {"simple_strategy", "plugged"}
    /\ account = LowBalance
    /\ market = TickerReplies
    /\ boot = BootOff
    /\ is_trading = FALSE
    /\ positions = EmptyLedger
    /\ daily_pnl = 0
    /\ today = 0
    /\ last_reset_date = 0
    /\ orders = <<>>
    /\ call = [p \in Callers |-> IdleCall]

\* a position as a harness assigns it (test_functionality.py:98)
AssignedPosition ==
    [side |-> "buy", amount |-> Div(trade_amount, 100), entry_price |-> 100,
     order_id |-> 0]

AssignedLedgers ==
    {[s \in S |-> AssignedPosition] :
        S \in {{}, {"BTC/USDT"}, {"BTC/USDT", "ETH/USDT"}, AssignedSymbols}}

\* the bot with its fields assigned as test_risk_management assigns them
InitAssigned ==
    /\ max_positions \in AssignedMaxPositions
    /\ policy = "simple_strategy"
    /\ account \in BalanceReplies
    /\ market = TickerReplies
    /\ boot = BootOff
    /\ is_trading = FALSE
    /\ positions \in AssignedLedgers
    /\ daily_pnl \in AssignedPnl
    /\ today = 0
    /\ last_reset_date = 0
    /\ orders = <<>>
    /\ call = [p \in Callers |-> IdleCall]

\* ------------------------------------------------------ bot.py startup
\* 'from config import get_config' (bot.py:8) runs config = Config()
\* (config.py:74); a ValueError there ends the process with a traceback
ImportConfig ==
    /\ boot.stage = "start"
    /\ LET r == load_config(boot.env)
       IN  boot' = [boot EXCEPT
                       !.stage = IF r.raised THEN "import_error" ELSE "imported",
                       !.config = r.config]
    /\ UNCHANGED <<max_positions, policy, account, market, is_trading,
                   positions, daily_pnl, last_reset_date, today, orders, call>>

\* SomniaTradeBot.__init__: validate, and sys.exit(1) on ValueError
BotInit ==
    /\ boot.stage = "imported"
    /\ LET errors == validate(boot.config)
       IN  boot' = [boot EXCEPT
                       !.stage = IF errors # <<>> THEN "exit" ELSE "initialized",
                       !.errors = errors]
    /\ UNCHANGED <<max_positions, policy, account, market, is_trading,
                   positions, daily_pnl, last_reset_date, today, orders, call>>

\* SomniaTradeBot.run, its three steps
BotRun ==
    /\ boot.stage \in {"initialized", "connected", "telegram_ready"}
    /\ boot' = [boot EXCEPT
                   !.stage = CASE @ = "initialized" -> "connected"
                               [] @ = "connected" -> "telegram_ready"
                               [] OTHER -> "running"]
    /\ UNCHANGED <<max_positions, policy, account, market, is_trading,
                   positions, daily_pnl, last_reset_date, today, orders, call>>

\* --------------------------------------------------------------- clock
Midnight ==
    /\ today < MaxDay
    /\ today' = today + 1
    /\ UNCHANGED <<max_positions, policy, account, market, boot, is_trading,
                   positions, daily_pnl, last_reset_date, orders, call>>

\* ------------------------------------------------- start / stop / status
\* mutant: starting flips the flag
start_trading_toggle ==
    /\ call["manual"].pc = "idle"
    /\ is_trading' = ~is_trading
    /\ UNCHANGED <<max_positions, policy, account, market, boot, positions,
                   daily_pnl, last_reset_date, today, orders, call>>

start_trading ==
    /\ call["manual"].pc = "idle"
    /\ is_trading' = TRUE
    /\ UNCHANGED <<max_positions, policy, account, market, boot, positions,
                   daily_pnl, last_reset_date, today, orders, call>>

stop_trading ==
    /\ call["manual"].pc = "idle"
    /\ is_trading' = FALSE
    /\ UNCHANGED <<max_positions, policy, account, market, boot, positions,
                   daily_pnl, last_reset_date, today, orders, call>>

\* mutant: the status does not count the ledger
get_status_uncounted ==
    /\ call["manual"].pc = "idle"
    /\ call' = [call EXCEPT !["manual"] =
                   [IdleCall EXCEPT !.pc = "done", !.exit = "status",
                       !.status = [is_trading |-> is_trading,
                                   positions |-> 0,
                                   daily_pnl |-> daily_pnl]]]
    /\ UNCHANGED <<max_positions, policy, account, market, boot, is_trading,
                   positions, daily_pnl, last_reset_date, today, orders>>

\* status_command: get_status, whose result the handler then renders
get_status ==
    /\ call["manual"].pc = "idle"
    /\ call' = [call EXCEPT !["manual"] =
                   [IdleCall EXCEPT !.pc = "done", !.exit = "status",
                       !.status = [is_trading |-> is_trading,
                                   positions |-> NPositions,
                                   daily_pnl |-> daily_pnl]]]
    /\ UNCHANGED <<max_positions, policy, account, market, boot, is_trading,
                   positions, daily_pnl, last_reset_date, today, orders>>

\* --------------------------------------------------------------- reports
\* get_portfolio_summary returns {'positions': self.positions, ...}, the
\* ledger itself (trading_bot.py:296); status.positions is the number of
\* entries it has at that moment
portfolio_command ==
    /\ call["manual"].pc = "idle"
    /\ call' = [call EXCEPT !["manual"] =
                   [IdleCall EXCEPT !.pc = "report", !.exit = "portfolio",
                       !.status = [is_trading |-> is_trading,
                                   positions |-> NPositions,
                                   daily_pnl |-> daily_pnl]]]
    /\ UNCHANGED <<max_positions, policy, account, market, boot, is_trading,
                   positions, daily_pnl, last_reset_date, today, orders>>

\* positions = self.trading_bot.positions (telegram_bot.py:227), the
\* ledger itself again
positions_command ==
    /\ call["manual"].pc = "idle"
    /\ call' = [call EXCEPT !["manual"] =
                   [IdleCall EXCEPT !.pc = "report", !.exit = "positions",
                       !.status = [is_trading |-> is_trading,
                                   positions |-> NPositions,
                                   daily_pnl |-> daily_pnl]]]
    /\ UNCHANGED <<max_positions, policy, account, market, boot, is_trading,
                   positions, daily_pnl, last_reset_date, today, orders>>

\* the handler lists positions.items(): what the ledger holds by then
RenderReport ==
    /\ call["manual"].pc = "report"
    /\ call' = [call EXCEPT !["manual"] =
                   [@ EXCEPT !.pc = "done", !.shown = DOMAIN positions]]
    /\ UNCHANGED <<max_positions, policy, account, market, boot, is_trading,
                   positions, daily_pnl, last_reset_date, today, orders>>

\* ------------------------------------------------------------ the gate
\* one evaluation of check_risk_management
GateStep(in_loop) ==
    check_risk_management(daily_pnl, last_reset_date, today, NPositions,
                          max_positions, in_loop, account)

GateSeen(g) ==
    [before |-> daily_pnl, rolled |-> today > last_reset_date,
     daily_pnl |-> g.daily_pnl, npos |-> NPositions, result |-> g.result,
     reason |-> g.reason]

\* a direct, synchronous call of bot.check_risk_management()
DirectRiskCheck ==
    /\ call["direct"].pc = "idle"
    /\ LET g == GateStep(FALSE)
       IN  /\ daily_pnl' = g.daily_pnl
           /\ last_reset_date' = g.last_reset_date
           /\ call' = [call EXCEPT !["direct"] =
                          [IdleCall EXCEPT !.pc = "done", !.exit = "checked",
                                           !.gate = GateSeen(g)]]
    /\ UNCHANGED <<max_positions, policy, account, market, boot, is_trading,
                   positions, today, orders>>

\* a direct, synchronous call of bot.simple_strategy(symbol) with
\* get_ohlcv patched to answer a given history (test_functionality.py:71-74)
DirectStrategy ==
    /\ call["direct"].pc = "idle"
    /\ \E closes \in Histories :
          LET s == simple_strategy(FALSE, closes)
          IN  call' = [call EXCEPT !["direct"] =
                          [IdleCall EXCEPT !.pc = "done", !.exit = "evaluated",
                                           !.closes = closes, !.signal = s[1],
                                           !.confidence = s[2]]]
    /\ UNCHANGED <<max_positions, policy, account, market, boot, is_trading,
                   positions, daily_pnl, last_reset_date, today, orders>>

\* ------------------------------------------------------------ triggers
\* mutant: the tick runs whatever is_trading says
PeriodicTick_ungated ==
    /\ call["periodic"].pc = "idle"
    /\ call' = [call EXCEPT !["periodic"] =
                   [IdleCall EXCEPT !.pc = "risk", !.symbol = default_symbol]]
    /\ UNCHANGED <<max_positions, policy, account, market, boot, is_trading,
                   positions, daily_pnl, last_reset_date, today, orders>>

\* mutant: a manual trade goes past the risk gate
ManualTrade_ungated ==
    /\ call["manual"].pc = "idle"
    /\ \E s \in Symbols :
          call' = [call EXCEPT !["manual"] =
                      [IdleCall EXCEPT !.pc = "signal", !.symbol = s]]
    /\ UNCHANGED <<max_positions, policy, account, market, boot, is_trading,
                   positions, daily_pnl, last_reset_date, today, orders>>

\* _periodic_trading_check: returns at once unless is_trading
PeriodicTick ==
    /\ call["periodic"].pc = "idle"
    /\ call' = IF is_trading
               THEN [call EXCEPT !["periodic"] =
                        [IdleCall EXCEPT !.pc = "risk", !.symbol = default_symbol]]
               ELSE call
    /\ UNCHANGED <<max_positions, policy, account, market, boot, is_trading,
                   positions, daily_pnl, last_reset_date, today, orders>>

\* context.args of a /trade command: the words after the command
BtcLower == <<"b", "t", "c", "/", "u", "s", "d", "t">>
BtcUpper == <<"B", "T", "C", "/", "U", "S", "D", "T">>
EthMixed == <<"E", "t", "h", "/", "U", "s", "d", "t">>
EthUpper == <<"E", "T", "H", "/", "U", "S", "D", "T">>

CommandArgs ==
    {<<>>, <<BtcLower>>, <<BtcUpper>>, <<EthMixed, <<"n", "o", "w">>>>,
     <<<<"b", "t", "c", "u", "s", "d", "t">>>>, <<<<"E", "T", "H">>, BtcUpper>>}

\* the instrument a symbol string names in this model
SymbolName(t) ==
    CASE t = BtcUpper -> "BTC/USDT" [] t = EthUpper -> "ETH/USDT"
      [] OTHER -> "?"

\* what manual_trade_command does with its arguments up to the call of
\* execute_trade; cased are the words as the handler reads them, and
\* delivered is whether the 'Analyzing' reply_text returned or raised
trade_command(args, delivered, cased) ==
    IF args = <<>>
    THEN [IdleCall EXCEPT !.pc = "done", !.exit = "usage", !.args = args]
    ELSE IF ~Contains(cased[1], "/")
    THEN [IdleCall EXCEPT !.pc = "done", !.exit = "bad_symbol", !.args = args]
    ELSE IF ~delivered
    THEN [IdleCall EXCEPT !.pc = "done", !.exit = "reply_failed",
                          !.args = args]
    ELSE [IdleCall EXCEPT !.pc = "risk", !.args = args,
                          !.symbol = SymbolName(cased[1])]

\* the words of the command upper-cased (of which the handler reads the
\* first, context.args[0].upper())
UpperWords(args) == [i \in 1..Len(args) |-> Upper(args[i])]

\* mutant: the symbol is passed on as it was typed
manual_trade_command_as_typed ==
    /\ call["manual"].pc = "idle"
    /\ \E args \in CommandArgs, delivered \in BOOLEAN :
          call' = [call EXCEPT !["manual"] =
                      trade_command(args, delivered, args)]
    /\ UNCHANGED <<max_positions, policy, account, market, boot, is_trading,
                   positions, daily_pnl, last_reset_date, today, orders>>

\* manual_trade_command, lines 251-270
manual_trade_command ==
    /\ call["manual"].pc = "idle"
    /\ \E args \in CommandArgs, delivered \in BOOLEAN :
          call' = [call EXCEPT !["manual"] =
                      trade_command(args, delivered, UpperWords(args))]
    /\ UNCHANGED <<max_positions, policy, account, market, boot, is_trading,
                   positions, daily_pnl, last_reset_date, today, orders>>

\* manual_trade_command with a well-formed symbol
ManualTrade ==
    /\ call["manual"].pc = "idle"
    /\ \E s \in Symbols :
          call' = [call EXCEPT !["manual"] =
                      [IdleCall EXCEPT !.pc = "risk", !.symbol = s]]
    /\ UNCHANGED <<max_positions, policy, account, market, boot, is_trading,
                   positions, daily_pnl, last_reset_date, today, orders>>

\* -------------------------------------------------------- execute_trade
Leave(c, why) == [c EXCEPT !.pc = "done", !.exit = why, !.ret = 0]

\* lines 213-214
RiskCheck(p) ==
    /\ call[p].pc = "risk"
    /\ LET g == GateStep(TRUE)
       IN  /\ daily_pnl' = g.daily_pnl
           /\ last_reset_date' = g.last_reset_date
           /\ call' = [call EXCEPT ![p] =
                          IF g.result
                          THEN [@ EXCEPT !.pc = "signal", !.gate = GateSeen(g)]
                          ELSE Leave([@ EXCEPT !.gate = GateSeen(g)],
                                     "risk_denied")]
    /\ UNCHANGED <<max_positions, policy, account, market, boot, is_trading,
                   positions, today, orders>>

\* the evaluator bound to self.simple_strategy, called inside the event loop
Evaluate(closes, plugged) ==
    IF policy = "simple_strategy" THEN simple_strategy(TRUE, closes)
    ELSE plugged

\* the histories the shipped evaluator may be offered; a replacement
\* evaluator is not followed into its data
Offered == IF policy = "simple_strategy" THEN HistoryReplies ELSE {<<>>}

\* the answers of the replacement evaluator in use
Answers == IF policy = "threshold" THEN ThresholdSignals ELSE PluggedSignals

\* mutant: a confidence of exactly 0.3 is rejected too
NoSignal_inclusive(s) == s[1] = "hold" \/ s[2] <= MIN_CONFIDENCE

\* line 218: signal == 'hold' or confidence < 0.3
NoSignal(s) == s[1] = "hold" \/ s[2] < MIN_CONFIDENCE

\* line 216 stands outside the try block of execute_trade: an exception
\* leaving the evaluator leaves execute_trade too
Propagate(c) == [c EXCEPT !.pc = "done", !.exit = "raised", !.ret = 0]

\* lines 216-219
SignalEval(p) ==
    /\ call[p].pc = "signal"
    /\ \E closes \in Offered, plugged \in Answers :
          LET s == Evaluate(closes, plugged)
              c == [call[p] EXCEPT !.gate = NoGate, !.closes = closes]
              d == [c EXCEPT !.signal = s[1], !.confidence = s[2]]
          IN  call' = [call EXCEPT ![p] =
                          IF s[1] = "raise" THEN Propagate(c)
                          ELSE IF NoSignal(s) THEN Leave(d, "no_signal")
                          ELSE [d EXCEPT !.pc = "ticker"]]
    /\ UNCHANGED <<max_positions, policy, account, market, boot, is_trading,
                   positions, daily_pnl, last_reset_date, today, orders>>

\* line 226: not current_price
NoPrice(current_price) == current_price = 0

\* lines 223-230
FetchTicker(p) ==
    /\ call[p].pc = "ticker"
    /\ \E reply \in market :
          LET current_price == last_price(get_ticker(reply))
          IN  call' = [call EXCEPT ![p] =
                          IF NoPrice(current_price)
                          THEN Leave([@ EXCEPT !.quote = reply],
                                     "no_price")
                          ELSE [@ EXCEPT !.pc = "order", !.quote = reply,
                                         !.current_price = current_price,
                                         !.amount = Div(trade_amount, current_price)]]
    /\ UNCHANGED <<max_positions, policy, account, market, boot, is_trading,
                   positions, daily_pnl, last_reset_date, today, orders>>

\* what exchange.create_order answers when it accepts the order; a market
\* order is filled at once ("closed"), a stop or limit order rests ("open")
NewOrder(symbol, type, side, amount, price100) ==
    [id |-> Len(orders) + 1, symbol |-> symbol, type |-> type, side |-> side,
     amount |-> amount, price100 |-> price100,
     status |-> IF type = "market" THEN "closed" ELSE "open"]

\* place_order: the id of the order create_order answered, 0 for the {}
\* returned when create_order raises
place_order(accepted, id) == IF accepted THEN id ELSE 0

\* mutant: the answer of place_order is not looked at
Entered_unchecked(c, order) == [c EXCEPT !.pc = "stop", !.order = order]

\* line 235, 'if order:'; with {} the function falls through to its end
\* and returns None
Entered(c, order) ==
    IF order # 0 THEN [c EXCEPT !.pc = "stop", !.order = order]
    ELSE Leave(c, "entry_failed")

\* lines 233-235 with place_order: the entry is accepted, or refused
PlaceOrder(p) ==
    /\ call[p].pc = "order"
    /\ \E accepted \in BOOLEAN :
          /\ accepted => Len(orders) < MaxOrders
          /\ orders' = IF accepted
                       THEN Append(orders, NewOrder(call[p].symbol, "market",
                                       call[p].signal, call[p].amount, 0))
                       ELSE orders
          /\ call' = [call EXCEPT ![p] =
                         Entered([@ EXCEPT !.sent = @ + 1],
                                 place_order(accepted, Len(orders) + 1))]
    /\ UNCHANGED <<max_positions, policy, account, market, boot, is_trading,
                   positions, daily_pnl, last_reset_date, today>>

\* lines 154-156 / 167-169: the stop order; a refusal ends the function
PlaceStop(p) ==
    /\ call[p].pc = "stop"
    /\ \/ /\ Len(orders) < MaxOrders
          /\ orders' = Append(orders, NewOrder(call[p].symbol, "stop_market",
                                  OppositeSide(call[p].signal), call[p].amount,
                                  stop_loss_price(call[p].signal,
                                                  call[p].current_price)))
          /\ call' = [call EXCEPT ![p] =
                         [@ EXCEPT !.pc = "take_profit", !.sent = @ + 1,
                                   !.stop_order = Len(orders) + 1]]
       \/ /\ orders' = orders
          /\ call' = [call EXCEPT ![p] =
                         [@ EXCEPT !.pc = "record", !.sent = @ + 1]]
    /\ UNCHANGED <<max_positions, policy, account, market, boot, is_trading,
                   positions, daily_pnl, last_reset_date, today>>

\* lines 159 / 172: the take-profit order; a refusal makes the function
\* return (None, None), line 179
PlaceTakeProfit(p) ==
    /\ call[p].pc = "take_profit"
    /\ \/ /\ Len(orders) < MaxOrders
          /\ orders' = Append(orders, NewOrder(call[p].symbol, "limit",
                                  OppositeSide(call[p].signal), call[p].amount,
                                  take_profit_price(call[p].signal,
                                                    call[p].current_price)))
          /\ call' = [call EXCEPT ![p] =
                         [@ EXCEPT !.pc = "record", !.sent = @ + 1,
                                   !.tp_order = Len(orders) + 1]]
       \/ /\ orders' = orders
          /\ call' = [call EXCEPT ![p] =
                         [@ EXCEPT !.pc = "record", !.sent = @ + 1,
                                   !.stop_order = 0, !.tp_order = 0]]
    /\ UNCHANGED <<max_positions, policy, account, market, boot, is_trading,
                   positions, daily_pnl, last_reset_date, today>>

\* mutant: every position is stored as a long one
StorePosition_as_buy(ledger, c) ==
    (c.symbol :> [side |-> "buy", amount |-> c.amount,
                  entry_price |-> c.current_price, order_id |-> c.order])
    @@ ledger

\* mutant: storing a position forgets the others
StorePosition_replacing(ledger, c) ==
    (c.symbol :> [side |-> c.signal, amount |-> c.amount,
                  entry_price |-> c.current_price, order_id |-> c.order])

\* mutant: the position is stored only when the exit orders were placed
StorePosition_if_protected(ledger, c) ==
    IF c.stop_order = 0 THEN ledger
    ELSE (c.symbol :> [side |-> c.signal, amount |-> c.amount,
                       entry_price |-> c.current_price, order_id |-> c.order])
         @@ ledger

\* lines 240-246: self.positions[symbol] = {...}; the 'timestamp' string,
\* which only the reports print, is left out
StorePosition(ledger, c) ==
    (c.symbol :> [side |-> c.signal, amount |-> c.amount,
                  entry_price |-> c.current_price, order_id |-> c.order])
    @@ ledger

\* lines 239-249
Record(p) ==
    /\ call[p].pc = "record"
    /\ positions' = StorePosition(positions, call[p])
    /\ call' = [call EXCEPT ![p] =
                   [@ EXCEPT !.pc = "done", !.exit = "recorded",
                             !.wrote = TRUE, !.ret = call[p].order]]
    /\ UNCHANGED <<max_positions, policy, account, market, boot, is_trading,
                   daily_pnl, last_reset_date, today, orders>>

\* the caller takes the result; the invocation is over
Return(p) ==
    /\ call[p].pc = "done"
    /\ call' = [call EXCEPT ![p] = IdleCall]
    /\ UNCHANGED <<max_positions, policy, account, market, boot, is_trading,
                   positions, daily_pnl, last_reset_date, today, orders>>

\* ------------------------------------------------------------- exchange
\* the exchange executes a resting stop or take-profit order
ExchangeFill ==
    /\ \E i \in 1..Len(orders) :
          /\ orders[i].status = "open"
          /\ orders' = [orders EXCEPT ![i].status = "closed"]
    /\ UNCHANGED <<max_positions, policy, account, market, boot, is_trading,
                   positions, daily_pnl, last_reset_date, today, call>>

Next ==
    \/ Midnight
    \/ start_trading
    \/ stop_trading
    \/ get_status
    \/ PeriodicTick
    \/ ManualTrade
    \/ \E p \in Procs : RiskCheck(p)
    \/ \E p \in Procs : SignalEval(p)
    \/ \E p \in Procs : FetchTicker(p)
    \/ \E p \in Procs : PlaceOrder(p)
    \/ \E p \in Procs : PlaceStop(p)
    \/ \E p \in Procs : PlaceTakeProfit(p)
    \/ \E p \in Procs : Record(p)
    \/ \E p \in Procs : Return(p)

\* the program: both triggers, the shipped or a replacement evaluator
Spec == Init /\ [][Next]_vars

\* the risk gate with assigned fields, called directly and by execute_trade
GateNext ==
    \/ Midnight
    \/ start_trading
    \/ DirectRiskCheck
    \/ PeriodicTick
    \/ ManualTrade
    \/ \E p \in Procs : RiskCheck(p)
    \/ \E p \in Procs : SignalEval(p)
    \/ \E p \in Callers : Return(p)

GateSpec == InitAssigned /\ [][GateNext]_vars

\* the program beside an exchange that executes the resting exit orders
FillInit ==
    /\ Init
    /\ max_positions = 1
    /\ policy = "plugged"

FillNext == Next \/ ExchangeFill

FillSpec == FillInit /\ [][FillNext]_vars

\* the program served by an exchange whose quotes may be negative
QuoteInit ==
    /\ max_positions = 1
    /\ policy = "plugged"
    /\ account = LowBalance
    /\ market = AnyTickerReplies
    /\ boot = BootOff
    /\ is_trading = FALSE
    /\ positions = EmptyLedger
    /\ daily_pnl = 0
    /\ today = 0
    /\ last_reset_date = 0
    /\ orders = <<>>
    /\ call = [p \in Callers |-> IdleCall]

QuoteSpec == QuoteInit /\ [][Next]_vars

\* the shipped evaluator, called directly and by execute_trade
StrategyInit ==
    /\ Init
    /\ max_positions = 1
    /\ policy = "simple_strategy"

StrategyNext ==
    \/ start_trading
    \/ DirectStrategy
    \/ PeriodicTick
    \/ ManualTrade
    \/ \E p \in Procs : RiskCheck(p)
    \/ \E p \in Procs : SignalEval(p)
    \/ \E p \in Callers : Return(p)

StrategySpec == StrategyInit /\ [][StrategyNext]_vars

\* bot.py started in an environment
ConfigInit ==
    /\ max_positions = 1
    /\ policy = "simple_strategy"
    /\ account = LowBalance
    /\ market = TickerReplies
    /\ boot \in {[BootOff EXCEPT !.stage = "start", !.env = e] :
                    e \in Environments}
    /\ is_trading = FALSE
    /\ positions = EmptyLedger
    /\ daily_pnl = 0
    /\ today = 0
    /\ last_reset_date = 0
    /\ orders = <<>>
    /\ call = [p \in Callers |-> IdleCall]

ConfigNext == ImportConfig \/ BotInit \/ BotRun

ConfigSpec == ConfigInit /\ [][ConfigNext]_vars

\* the program with an evaluator answering at the confidence threshold
ThresholdInit ==
    /\ max_positions = 1
    /\ policy = "threshold"
    /\ account = LowBalance
    /\ market = TickerReplies
    /\ boot = BootOff
    /\ is_trading = FALSE
    /\ positions = EmptyLedger
    /\ daily_pnl = 0
    /\ today = 0
    /\ last_reset_date = 0
    /\ orders = <<>>
    /\ call = [p \in Callers |-> IdleCall]

ThresholdSpec == ThresholdInit /\ [][Next]_vars

\* the program with the report commands of the Telegram loop
ReportInit ==
    /\ Init
    /\ max_positions = 1
    /\ policy = "plugged"

ReportNext == Next \/ portfolio_command \/ positions_command \/ RenderReport

ReportSpec == ReportInit /\ [][ReportNext]_vars

\* /trade requests alone, one after the other, the scheduler being off
SoloInit ==
    /\ Init
    /\ max_positions = 2
    /\ policy = "plugged"

SoloNext ==
    \/ ManualTrade
    \/ RiskCheck("manual")
    \/ SignalEval("manual")
    \/ FetchTicker("manual")
    \/ PlaceOrder("manual")
    \/ PlaceStop("manual")
    \/ PlaceTakeProfit("manual")
    \/ Record("manual")
    \/ Return("manual")

SoloSpec == SoloInit /\ [][SoloNext]_vars

\* /trade commands as they are typed, the scheduler being off
CommandInit ==
    /\ Init
    /\ max_positions = 2
    /\ policy = "plugged"

CommandNext ==
    \/ Midnight
    \/ manual_trade_command
    \/ RiskCheck("manual")
    \/ SignalEval("manual")
    \/ FetchTicker("manual")
    \/ PlaceOrder("manual")
    \/ PlaceStop("manual")
    \/ PlaceTakeProfit("manual")
    \/ Record("manual")
    \/ Return("manual")

CommandSpec == CommandInit /\ [][CommandNext]_vars

\* ====================================================== the claims
\* c has just evaluated the risk gate (call[c].gate is what it saw)
Gated(c) == call[c].gate.reason # "none"

\* the exchange can serve the free USDT balance, and it is below min_balance
FetchableBelowMin == account.ok /\ usdt_free(account) < min_balance

\* C1: whenever daily_pnl, after the day rollover, is at or below
\* -max_daily_loss, check_risk_management returns False, whatever the number
\* of positions, the balance reply and the caller.
C1_DailyLossDenies ==
    \A c \in Callers :
        (Gated(c) /\ call[c].gate.daily_pnl <= -max_daily_loss)
            => call[c].gate.result = FALSE

\* C1 witness: a denial at the loss limit with no position open and a
\* balance that passes the minimum-balance check.
C1_Witness ==
    \E c \in Callers :
        /\ Gated(c)
        /\ call[c].gate.daily_pnl = -max_daily_loss
        /\ call[c].gate.npos = 0
        /\ account.ok /\ usdt_free(account) >= min_balance
        /\ call[c].gate.result = FALSE

\* C2: when the day before ended with daily_pnl at or below -max_daily_loss,
\* the first gate call on a later date resets daily_pnl to 0 and is not
\* denied by the daily-loss check.
C2_ResetOnNewDay ==
    \A c \in Callers :
        (Gated(c) /\ call[c].gate.rolled
                  /\ call[c].gate.before <= -max_daily_loss)
            => /\ call[c].gate.daily_pnl = 0
               /\ call[c].gate.reason # "daily_loss"
               /\ (call[c].gate.npos < max_positions /\ ~FetchableBelowMin
                   /\ account.ok => call[c].gate.result = TRUE)

\* C2 witness: a gate call on the next day, after a day that ended at the
\* loss limit, allows trading.
C2_Witness ==
    \E c \in Callers :
        /\ Gated(c)
        /\ call[c].gate.rolled
        /\ call[c].gate.before <= -max_daily_loss
        /\ call[c].gate.result = TRUE

\* C3: when the balance fetch fails, the gate skips the minimum-balance
\* check: with daily_pnl above the loss limit and fewer than max_positions
\* positions it returns True.
C3_FailedFetchAllows ==
    \A c \in Callers :
        (Gated(c) /\ ~account.ok
                  /\ call[c].gate.daily_pnl > -max_daily_loss
                  /\ call[c].gate.npos < max_positions)
            => call[c].gate.result = TRUE

\* C4: whenever the ledger holds max_positions positions or more, the gate
\* returns False.
C4_PositionsFullDenies ==
    \A c \in Callers :
        (Gated(c) /\ call[c].gate.npos >= max_positions)
            => call[c].gate.result = FALSE

\* C4 witness: max_positions = 3, three recorded positions, and the gate
\* denies on the position count alone.
C4_Witness ==
    \E c \in Callers :
        /\ Gated(c)
        /\ max_positions = 3
        /\ call[c].gate.npos = 3
        /\ call[c].gate.reason = "max_positions"
        /\ call[c].gate.result = FALSE

\* C5: whenever the free quote-currency balance can be fetched and is below
\* min_balance, the gate denies, for every caller, execute_trade included.
C5_LowBalanceDenies ==
    \A c \in Callers :
        (Gated(c) /\ FetchableBelowMin) => call[c].gate.result = FALSE

\* C6: a trade entry on an instrument that already has a position never
\* replaces the ledger entry of that instrument.
C6_NoOverwrite ==
    [][\A s \in DOMAIN positions :
          s \in DOMAIN positions' /\ positions'[s] = positions[s]]_vars

\* a resting exit order that the exchange has executed
Executed(o) == o.type # "market" /\ o.status = "closed"

\* the exit order o closes the position pos of its instrument
Closes(o, s) ==
    /\ s \in DOMAIN positions
    /\ o.symbol = s
    /\ o.side = OppositeSide(positions[s].side)
    /\ o.id > positions[s].order_id

\* C7: a closed position is removed from the ledger and its realized PnL is
\* added to daily_pnl in the same step: no position whose exit order has
\* been executed is still in the ledger.
C7_ClosedLeavesLedger ==
    \A i \in 1..Len(orders) :
        Executed(orders[i]) => ~Closes(orders[i], orders[i].symbol)

\* p is inside execute_trade and has not reached its return
InFlight(p) == call[p].pc \notin {"idle", "done"}

\* C8: of two concurrent execute_trade invocations on the same instrument,
\* at most one has its entry order accepted.
C8_OneEntryPerInstrument ==
    (/\ InFlight("periodic")
     /\ InFlight("manual")
     /\ call["periodic"].symbol = call["manual"].symbol)
        => ~(call["periodic"].order # 0 /\ call["manual"].order # 0)

\* C9: whenever the Telegram loop is free to run a status or positions
\* query, every instrument with an accepted entry order has a position in
\* the ledger.
C9_AcceptedEntryTracked ==
    call["manual"].pc = "idle"
        => \A i \in 1..Len(orders) :
              orders[i].type = "market" => orders[i].symbol \in DOMAIN positions

\* the quote gives no usable price: the fetch failed, 'last' is missing or 0
Unpriced(q) == ~q.ok \/ ~q.has_last \/ q.last = 0

\* C10: when the quote fetch fails or the price is missing or 0,
\* execute_trade returns None, submits no order and does not write the
\* ledger; no invocation goes on to the entry with such a quote.
C10_NoPriceNoTrade ==
    \A p \in Procs :
        /\ (call[p].pc \in {"order", "stop", "take_profit", "record"})
              => ~Unpriced(call[p].quote)
        /\ (call[p].pc = "done"
            /\ call[p].exit \in {"no_price", "entry_failed", "recorded"}
            /\ Unpriced(call[p].quote))
              => /\ call[p].ret = 0
                 /\ call[p].sent = 0
                 /\ call[p].wrote = FALSE
                 /\ call[p].order = 0

\* C10 witness: execute_trade has returned after a failed quote fetch.
C10_Witness ==
    \E p \in Procs :
        /\ call[p].pc = "done"
        /\ call[p].exit = "no_price"
        /\ call[p].quote = TickerFailure
        /\ call[p].ret = 0

\* the quote carries a price below zero
NegativePrice(q) == q.ok /\ q.has_last /\ q.last < 0

\* C11: a current price below zero is treated as no-trade: execute_trade
\* returns None, submits no order and records no position.
C11_NegativePriceNoTrade ==
    \A p \in Procs :
        NegativePrice(call[p].quote)
            => /\ call[p].pc = "done"
               /\ call[p].ret = 0
               /\ call[p].sent = 0
               /\ call[p].wrote = FALSE

\* the entry was submitted and the exchange did not accept it
EntryRefused(c) == c.sent >= 1 /\ c.order = 0

\* C12: if the entry order submission fails, execute_trade returns None,
\* records no position and attempts no protective order (the entry is the
\* only order it ever submitted).
C12_EntryFailureAborts ==
    \A p \in Procs :
        EntryRefused(call[p])
            => /\ call[p].pc = "done"
               /\ call[p].ret = 0
               /\ call[p].wrote = FALSE
               /\ call[p].sent = 1
               /\ call[p].stop_order = 0
               /\ call[p].tp_order = 0

\* C12 witness: an invocation has returned after its entry was refused, and
\* its instrument has no position.
C12_Witness ==
    \E p \in Procs :
        /\ call[p].pc = "done"
        /\ EntryRefused(call[p])
        /\ call[p].ret = 0
        /\ call[p].symbol \notin DOMAIN positions

\* C13: once the entry order is accepted, execute_trade ends by recording
\* the position and returning the entry order, whether or not the stop and
\* take-profit orders could be placed.
C13_ProtectiveFailureKeepsPosition ==
    \A p \in Procs :
        (call[p].pc = "done" /\ call[p].order # 0)
            => /\ call[p].exit = "recorded"
               /\ call[p].wrote = TRUE
               /\ call[p].ret = call[p].order
               /\ call[p].symbol \in DOMAIN positions

\* C13 witness: one invocation whose stop order was refused and one whose
\* take-profit order was refused have both recorded their position.
C13_Witness ==
    \E p, q \in Procs :
        /\ call[p].pc = "done" /\ call[p].order # 0 /\ call[p].sent = 2
        /\ call[q].pc = "done" /\ call[q].order # 0 /\ call[q].sent = 3
        /\ call[q].tp_order = 0
        /\ positions[call[p].symbol].order_id
               \in {call[p].order, call[q].order}
        /\ call[p].ret = call[p].order /\ call[q].ret = call[q].order

\* the quantity q equals one tenth
IsOneTenth(q) == q.num * 10 = q.den

\* C14: with max_positions = 1, a buy at price 100 with notional 10 submits
\* an entry of quantity 0.1, records entry price 100 and returns the order;
\* and whenever the gate finds max_positions positions recorded,
\* execute_trade returns None without submitting an order.
C14_ScenarioThenDenied ==
    \A p \in Procs :
        /\ (Gated(p) /\ call[p].gate.npos >= max_positions)
              => /\ call[p].pc = "done"
                 /\ call[p].ret = 0
                 /\ call[p].sent = 0
                 /\ call[p].order = 0
                 /\ call[p].wrote = FALSE
        /\ (call[p].order # 0 /\ call[p].signal = "buy"
            /\ call[p].current_price = 100)
              => /\ orders[call[p].order].side = "buy"
                 /\ orders[call[p].order].symbol = call[p].symbol
                 /\ IsOneTenth(orders[call[p].order].amount)
        /\ (call[p].pc = "done" /\ call[p].order # 0
            /\ call[p].current_price = 100
            /\ positions[call[p].symbol].order_id = call[p].order)
              => /\ positions[call[p].symbol].entry_price = 100
                 /\ positions[call[p].symbol].amount = call[p].amount
                 /\ call[p].ret = call[p].order

\* C14 witness: max_positions = 1, the BTC/USDT buy of quantity 0.1 at 100
\* is recorded, and a manual trade on ETH/USDT has been denied for the
\* position count without any order of its own.
C14_Witness ==
    /\ max_positions = 1
    /\ DOMAIN positions = {"BTC/USDT"}
    /\ positions["BTC/USDT"].side = "buy"
    /\ positions["BTC/USDT"].entry_price = 100
    /\ IsOneTenth(positions["BTC/USDT"].amount)
    /\ Len(orders) = 3
    /\ call["manual"].pc = "done"
    /\ call["manual"].symbol = "ETH/USDT"
    /\ call["manual"].gate.reason = "max_positions"
    /\ call["manual"].ret = 0
    /\ call["manual"].sent = 0

\* the protective order o of an entry on side, priced at entry_price times
\* (100 + percent) hundredths
Protects(o, c, type, percent) ==
    /\ o.type = type
    /\ o.symbol = c.symbol
    /\ o.amount = c.amount
    /\ o.side = (IF c.signal = "buy" THEN "sell" ELSE "buy")
    /\ o.price100 = c.current_price * (100 + percent)

\* C15: a buy entry gets its stop at entry * (1 - stop%/100) and its
\* take-profit at entry * (1 + tp%/100), both sell orders; a sell entry gets
\* its stop at entry * (1 + stop%/100) and its take-profit at
\* entry * (1 - tp%/100), both buy orders; entry 100 bought gives 98 and 105.
C15_ProtectivePrices ==
    \A p \in Procs :
        /\ call[p].stop_order # 0
              => /\ Protects(orders[call[p].stop_order], call[p], "stop_market",
                        IF call[p].signal = "buy" THEN -stop_loss_percent
                        ELSE stop_loss_percent)
                 /\ (call[p].signal = "buy" /\ call[p].current_price = 100)
                        => orders[call[p].stop_order].price100 = 9800
        /\ call[p].tp_order # 0
              => /\ Protects(orders[call[p].tp_order], call[p], "limit",
                        IF call[p].signal = "buy" THEN take_profit_percent
                        ELSE -take_profit_percent)
                 /\ (call[p].signal = "buy" /\ call[p].current_price = 100)
                        => orders[call[p].tp_order].price100 = 10500

\* C15 witness: a sell entry at 100 with its stop (buy at 102) and its
\* take-profit (buy at 95) on the exchange.
C15_Witness ==
    \E p \in Procs :
        /\ call[p].signal = "sell"
        /\ call[p].current_price = 100
        /\ call[p].stop_order # 0
        /\ call[p].tp_order # 0
        /\ orders[call[p].stop_order].side = "buy"
        /\ orders[call[p].stop_order].price100 = 10200
        /\ orders[call[p].tp_order].side = "buy"
        /\ orders[call[p].tp_order].price100 = 9500

\* c holds the answer of the signal evaluator for the history call[c].closes
Evaluated(c) == call[c].signal # ""

\* C16: for every history with fewer closes than the long window (50), an
\* empty history and a failed fetch included, the evaluator answers
\* ('hold', 0).
C16_ShortHistoryHolds ==
    \A c \in Callers :
        (Evaluated(c) /\ Len(call[c].closes) < 50)
            => call[c].signal = "hold" /\ call[c].confidence = 0

\* C16 witness: a direct call on 49 closes, enough for the short window
\* only, has answered ('hold', 0).
C16_Witness ==
    /\ call["direct"].pc = "done"
    /\ Len(call["direct"].closes) = 49
    /\ call["direct"].signal = "hold"
    /\ call["direct"].confidence = 0

\* 50 times the sum of the last 20 closes and 20 times the sum of the last
\* 50: the short and the long average on the common denominator 1000
ShortAvg(h) == SumLast(h, 20) * 50
LongAvg(h) == SumLast(h, 50) * 20

\* n / d clamped to [0, 1], in thousandths, for n >= 0 and d > 0
RelativeGap(n, d) == IF n >= d THEN 1000 ELSE (n * 1000) \div d

\* C17: the confidence of a buy is (shortSMA - longSMA) / longSMA clamped to
\* [0, 1], that of a sell is (longSMA - shortSMA) / shortSMA clamped to
\* [0, 1]: a short average 1% above the long one gives a buy of 0.01.
C17_ConfidenceIsRelativeGap ==
    \A c \in Callers :
        LET h == call[c].closes
        IN  /\ call[c].signal = "buy"
                  => call[c].confidence
                         = RelativeGap(ShortAvg(h) - LongAvg(h), LongAvg(h))
            /\ call[c].signal = "sell"
                  => call[c].confidence
                         = RelativeGap(LongAvg(h) - ShortAvg(h), ShortAvg(h))

PositiveCloses(h) == \A i \in 1..Len(h) : h[i] > 0

BuyRule(h) == ShortAvg(h) > LongAvg(h) /\ h[Len(h)] * 1000 > ShortAvg(h)

SellRule(h) == ShortAvg(h) < LongAvg(h) /\ h[Len(h)] * 1000 < ShortAvg(h)

\* C18: on every history of at least 50 positive closes the evaluator
\* answers 'buy' exactly when shortSMA > longSMA and the latest close is
\* above shortSMA, 'sell' exactly when shortSMA < longSMA and the latest
\* close is below shortSMA, ('hold', 0) otherwise, with a confidence in
\* [0, 1].
C18_CrossoverRule ==
    \A c \in Callers :
        LET h == call[c].closes
        IN  (Evaluated(c) /\ Len(h) >= 50 /\ PositiveCloses(h))
                => /\ call[c].signal = "buy" <=> BuyRule(h)
                   /\ call[c].signal = "sell" <=> SellRule(h)
                   /\ call[c].signal \in {"buy", "sell", "hold"}
                   /\ call[c].signal = "hold" => call[c].confidence = 0
                   /\ call[c].confidence \in 0..1000

\* C19: the periodic tick enters execute_trade only while is_trading is
\* True (otherwise it leaves the scheduler thread where it was), and a
\* manual trade can be started whatever is_trading is.
C19_FlagGatesPeriodicOnly ==
    /\ [](call["manual"].pc = "idle" => ENABLED ManualTrade)
    /\ [][(~is_trading /\ call["periodic"].pc = "idle")
              => call'["periodic"] = call["periodic"]]_vars

\* C19 witness: with is_trading False and nothing in flight in the
\* scheduler thread, a manual trade has placed and recorded an entry.
C19_Witness ==
    /\ is_trading = FALSE
    /\ call["periodic"] = IdleCall
    /\ call["manual"].pc = "done"
    /\ call["manual"].exit = "recorded"
    /\ call["manual"].order # 0

\* what an invocation was given: instrument, evaluator answer, quote, and
\* which of its orders the exchange accepted
TradeInputs(c) ==
    <<c.symbol, c.gate, c.signal, c.confidence, c.quote, c.order # 0,
      c.sent, c.tp_order # 0>>

\* what it did with them
TradeOutputs(c) ==
    <<c.exit, c.ret # 0, c.wrote, c.current_price, c.amount,
      c.stop_order # 0>>

C21_StatusIsTheState ==
    /\ is_trading = FALSE
    /\ [][/\ (call["manual"].pc = "idle" /\ call'["manual"].exit = "status")
              => /\ call'["manual"].status =
                        [is_trading |-> is_trading,
                         positions |-> Cardinality(DOMAIN positions),
                         daily_pnl |-> daily_pnl]
                 /\ UNCHANGED <<is_trading, positions, daily_pnl,
                                last_reset_date, orders, max_positions>>
          /\ (is_trading' # is_trading)
              => /\ call["manual"].pc = "idle"
                 /\ call' = call]_vars

\* C21 witness: a status was returned while trading was started and a
\* position was in the ledger, and it says so.
C21_Witness ==
    /\ call["manual"].pc = "done"
    /\ call["manual"].exit = "status"
    /\ call["manual"].status.is_trading
    /\ call["manual"].status.positions = 1
    /\ is_trading
    /\ NPositions = 1

\* the quantity q, a fraction, is greater than 0
PositiveQuantity(q) == q.num * q.den > 0

\* C22: every ledger entry has a quantity > 0 and an entry price > 0 (and
\* each instrument at most one entry, the ledger being keyed by instrument),
\* whatever quote the gateway returns.
C22_LedgerEntriesPositive ==
    \A s \in DOMAIN positions :
        /\ PositiveQuantity(positions[s].amount)
        /\ positions[s].entry_price > 0

\* C23: execute_trade never raises to its caller: whichever of the gateway
\* calls fail, an invocation that has ended has returned either the entry
\* order the exchange answered or None.
C23_NeverRaises ==
    \A p \in Procs :
        /\ call[p].exit # "raised"
        /\ (call[p].pc = "done" /\ call[p].exit # "status")
              => \/ call[p].ret = 0
                 \/ /\ call[p].ret \in 1..Len(orders)
                    /\ call[p].ret = call[p].order
                    /\ orders[call[p].ret].type = "market"

\* C23 witness: one invocation has ended with None after its quote call
\* failed, the other with None after the exchange refused its entry order.
C23_Witness ==
    /\ call["periodic"].pc = "done"
    /\ call["periodic"].exit = "no_price"
    /\ call["periodic"].quote = TickerFailure
    /\ call["periodic"].ret = 0
    /\ call["manual"].pc = "done"
    /\ call["manual"].exit = "entry_failed"
    /\ EntryRefused(call["manual"])
    /\ call["manual"].ret = 0

\* the later of two dates
Later(a, b) == IF a > b THEN a ELSE b

\* c evaluates the risk gate in this step
GateRuns(c) ==
    \/ c \in Procs /\ call[c].pc = "risk" /\ call'[c].pc # "risk"
    \/ c = "direct" /\ call[c].pc = "idle" /\ call'[c].exit = "checked"

\* C24: every check_risk_management call, also one that ends in a denial,
\* first applies the day rollover: daily_pnl is reset to 0 when the current
\* date is later than last_reset_date and is left alone on the same date,
\* and after the call last_reset_date is the later of its old value and the
\* current date; no other step touches either of them.
C24_RolloverOncePerDay ==
    [][/\ \A c \in Callers :
             GateRuns(c)
                => /\ last_reset_date' = Later(last_reset_date, today)
                   /\ today > last_reset_date => daily_pnl' = 0
                   /\ today <= last_reset_date => daily_pnl' = daily_pnl
                   /\ call'[c].gate.rolled = (today > last_reset_date)
       /\ (\A c \in Callers : ~GateRuns(c))
             => UNCHANGED <<daily_pnl, last_reset_date>>]_vars

\* C24 witness: a call that ended in a denial for the position count has
\* reset a daily_pnl of -150 on the first call of the new day.
C24_Witness ==
    \E c \in Callers :
        /\ Gated(c)
        /\ call[c].gate.rolled
        /\ call[c].gate.before = -150
        /\ call[c].gate.result = FALSE
        /\ call[c].gate.reason = "max_positions"
        /\ daily_pnl = 0
        /\ last_reset_date = today
        /\ today = 1

\* C25: the open positions handed out for reporting are a snapshot of one
\* point in time: the report lists as many positions as the ledger held
\* when it was handed out, whatever is recorded afterwards.
C25_ReportIsSnapshot ==
    (call["manual"].pc = "done"
     /\ call["manual"].exit \in {"portfolio", "positions"})
        => Cardinality(call["manual"].shown) = call["manual"].status.positions

\* the environment variable is unset or empty
Unset(v) == v.none \/ v.text = <<>>

\* the two format rules of validate
HttpUrl(v) ==
    \/ StartsWith(v.text, <<"h", "t", "t", "p", ":", "/", "/">>)
    \/ StartsWith(v.text, <<"h", "t", "t", "p", "s", ":", "/", "/">>)

ColonToken(v) == Contains(v.text, ":")

RunStages == {"initialized", "connected", "telegram_ready", "running"}

\* C26: a missing or invalid required setting is fatal at startup: Config
\* raises exactly when SOMNIA_API_URL or TELEGRAM_BOT_TOKEN is unset or
\* empty, validate rejects exactly an API URL without http:// or https://
\* in front and a token without ':', and SomniaTradeBot gets to its run
\* step only with a configuration that passes both.
C26_BadConfigIsFatal ==
    LET missing == Unset(boot.env.url) \/ Unset(boot.env.token)
        wellFormed == HttpUrl(boot.env.url) /\ ColonToken(boot.env.token)
    IN  /\ boot.stage = "import_error" => missing
        /\ boot.stage \in RunStages \cup {"imported", "exit"} => ~missing
        /\ boot.stage = "exit" => ~wellFormed /\ boot.errors # <<>>
        /\ boot.stage \in RunStages
              => /\ wellFormed
                 /\ boot.errors = <<>>
                 /\ boot.config.somnia_api_url = boot.env.url
                 /\ boot.config.telegram_bot_token = boot.env.token

\* C26 witness: startup has ended in sys.exit(1) for a token without ':'
\* beside a well-formed API URL.
C26_Witness ==
    /\ boot.stage = "exit"
    /\ HttpUrl(boot.env.url)
    /\ ~Unset(boot.env.token)
    /\ ~ColonToken(boot.env.token)
    /\ Len(boot.errors) = 1

\* the calls an invocation has made so far: none after the gate
NothingCalled(c) ==
    /\ c.signal = ""
    /\ c.closes = <<>>
    /\ c.quote = TickerFailure
    /\ c.current_price = 0
    /\ c.sent = 0
    /\ c.order = 0
    /\ c.wrote = FALSE

\* none after the evaluator
NothingFetched(c) ==
    /\ c.quote = TickerFailure
    /\ c.current_price = 0
    /\ c.sent = 0
    /\ c.order = 0
    /\ c.wrote = FALSE

\* C27: execute_trade goes through risk check, signal evaluation, quote
\* fetch, entry submission, protective orders and record in that order and
\* leaves at the first that fails: after a denial no history, quote or
\* order call was made; after a hold or a confidence below 0.3 no quote or
\* order call was made; a confidence of exactly 0.3 is not rejected.
C27_FailFastInOrder ==
    \A p \in Procs :
        LET c == call[p]
        IN  /\ c.pc = "risk" => NothingCalled(c)
            /\ (c.pc = "done" /\ c.exit = "risk_denied")
                  => NothingCalled(c) /\ c.ret = 0
            /\ c.pc = "signal" => NothingCalled(c)
            /\ (c.pc = "done" /\ c.exit = "no_signal")
                  => /\ c.signal = "hold" \/ c.confidence < MIN_CONFIDENCE
                     /\ NothingFetched(c)
                     /\ c.ret = 0
            /\ (c.pc = "ticker" \/ c.current_price # 0 \/ c.sent > 0)
                  => /\ c.signal \in {"buy", "sell"}
                     /\ c.confidence >= MIN_CONFIDENCE
            /\ c.pc = "ticker" => NothingFetched(c)
            /\ c.sent > 0 => c.current_price # 0
            /\ c.sent > 1 => c.order # 0
            /\ c.wrote => c.order # 0 /\ c.sent >= 2
            /\ (c.signal \in {"buy", "sell"}
                /\ c.confidence = MIN_CONFIDENCE)
                  => ~(c.pc = "done" /\ c.exit = "no_signal")

\* C27 witness: a buy of confidence exactly 0.3 was traded and recorded,
\* and a buy of confidence 0.299 was left without a quote call.
C27_Witness ==
    \E p, q \in Procs :
        /\ call[p].pc = "done"
        /\ call[p].exit = "recorded"
        /\ call[p].confidence = MIN_CONFIDENCE
        /\ call[q].pc = "done"
        /\ call[q].exit = "no_signal"
        /\ call[q].signal = "buy"
        /\ call[q].confidence = MIN_CONFIDENCE - 1

C29_PnlStaysZero ==
    /\ daily_pnl = 0
    /\ \A p \in Procs :
          /\ call[p].gate.reason # "daily_loss"
          /\ call[p].gate.daily_pnl = 0
          /\ call[p].gate.before = 0
          /\ call[p].status.daily_pnl = 0

\* C29 witness: a position was entered, its exit order executed, a day has
\* gone by and the gate has rolled over, and daily_pnl is 0.
C29_Witness ==
    /\ NPositions >= 1
    /\ \E i \in 1..Len(orders) : Executed(orders[i])
    /\ today = 1
    /\ last_reset_date = 1
    /\ \E p \in Procs : Gated(p) /\ call[p].gate.rolled
    /\ daily_pnl = 0

\* C30: no operation removes a position: the instruments of the ledger
\* only grow, and the gate, whenever it finds max_positions entries or
\* more, denies the trade, on the day of the entries and on any later day.
C30_LedgerOnlyGrows ==
    /\ [][DOMAIN positions \subseteq DOMAIN positions']_vars
    /\ [](\A p \in Procs :
            (Gated(p) /\ call[p].gate.npos >= max_positions)
               => /\ call[p].gate.result = FALSE
                  /\ call[p].exit = "risk_denied"
                  /\ call[p].ret = 0)

\* C30 witness: with the ledger full since the day before, the first gate
\* evaluation of the new day has denied the trade for the position count.
C30_Witness ==
    \E p \in Procs :
        /\ Gated(p)
        /\ call[p].gate.rolled
        /\ call[p].gate.npos >= max_positions
        /\ call[p].gate.reason = "max_positions"
        /\ call[p].exit = "risk_denied"
        /\ today = 1

\* p's invocation of execute_trade returns in this step
Returns(p) ==
    call[p].pc \notin {"idle", "done"} /\ call'[p].pc = "done"

\* C31: execute_trade returns an order if and only if the exchange accepted
\* its entry order; the step that returns it leaves in the ledger, for the
\* requested instrument, the signal's side, the quoted last price, the
\* amount trade_amount / price and the id of the returned order, and
\* touches no other entry; a step that returns None leaves the ledger as
\* it was.
C31_OrderIffEntered ==
    /\ [](\A p \in Procs :
            (call[p].pc = "done" /\ call[p].exit # "status")
               => /\ call[p].ret # 0 <=> call[p].order # 0
                  /\ call[p].ret # 0 <=> call[p].wrote
                  /\ call[p].ret # 0
                        => /\ orders[call[p].ret].id = call[p].ret
                           /\ orders[call[p].ret].type = "market"
                           /\ orders[call[p].ret].symbol = call[p].symbol
                           /\ orders[call[p].ret].side = call[p].signal)
    /\ [][\A p \in Procs :
            Returns(p)
               => IF call'[p].ret # 0
                  THEN /\ DOMAIN positions'
                             = DOMAIN positions \cup {call[p].symbol}
                       /\ positions'[call[p].symbol] =
                             [side |-> call[p].signal,
                              entry_price |-> call[p].quote.last,
                              amount |-> [num |-> trade_amount,
                                          den |-> call[p].quote.last],
                              order_id |-> call'[p].ret]
                       /\ \A s \in DOMAIN positions \ {call[p].symbol} :
                             positions'[s] = positions[s]
                  ELSE positions' = positions]_vars

\* C31 witness: a sell signal on ETH/USDT was entered at the quoted 100 and
\* the invocation has returned the order the ledger entry names.
C31_Witness ==
    \E p \in Procs :
        /\ call[p].pc = "done"
        /\ call[p].ret # 0
        /\ call[p].symbol = "ETH/USDT"
        /\ call[p].signal = "sell"
        /\ call[p].quote.last = 100
        /\ positions["ETH/USDT"].side = "sell"
        /\ positions["ETH/USDT"].order_id = call[p].ret

\* C32: start_trading and stop_trading change the is_trading flag and
\* nothing else: the ledger, daily_pnl, last_reset_date and the orders at
\* the exchange stay as they are, and no invocation is started or moved;
\* calling either again gives the same state as calling it once.
C32_StartStopOnlyFlag ==
    /\ [][(start_trading \/ stop_trading \/ is_trading' # is_trading)
             => UNCHANGED <<positions, daily_pnl, last_reset_date, today,
                            orders, call, max_positions>>]_vars
    /\ [][start_trading => is_trading']_vars
    /\ [][stop_trading => ~is_trading']_vars
    /\ []((call["manual"].pc = "idle" /\ is_trading)
             => ENABLED (start_trading /\ UNCHANGED vars))
    /\ []((call["manual"].pc = "idle" /\ ~is_trading)
             => ENABLED (stop_trading /\ UNCHANGED vars))

\* C32 witness: trading was stopped after a tick, which only runs while
\* trading is started, had recorded its position; the position and its
\* resting stop order are still there.
C32_Witness ==
    /\ ~is_trading
    /\ call["periodic"].pc = "done"
    /\ call["periodic"].exit = "recorded"
    /\ call["manual"].pc = "idle"
    /\ "BTC/USDT" \in DOMAIN positions
    /\ \E i \in 1..Len(orders) :
          orders[i].type = "stop_market" /\ orders[i].status = "open"

\* set_stop_loss_take_profit has answered (None, None) to p's invocation
ReportsFailure(p) ==
    /\ call[p].order # 0
    /\ call[p].pc \in {"record", "done"}
    /\ call[p].stop_order = 0
    /\ call[p].tp_order = 0

\* o is a protective order of p's trade: an exit order on its instrument
\* submitted after its entry
ProtectiveOf(p, o) ==
    /\ o.type \in {"stop_market", "limit"}
    /\ o.symbol = call[p].symbol
    /\ o.id > call[p].order

\* C33: protective orders are submitted only after an accepted entry, the
\* stop before the take-profit; after a refused stop no take-profit is
\* submitted; and whenever set_stop_loss_take_profit answers (None, None),
\* no protective order of that trade is resting at the exchange.
C33_FailureLeavesNothingLive ==
    \A p \in Procs :
        /\ call[p].pc \in {"stop", "take_profit"} => call[p].order # 0
        /\ call[p].tp_order # 0
              => call[p].stop_order # 0 /\ call[p].tp_order > call[p].stop_order
        /\ ReportsFailure(p)
              => \A i \in 1..Len(orders) :
                    ~(ProtectiveOf(p, orders[i]) /\ orders[i].status = "open")

\* c calls the signal evaluator in this step
EvaluatorRuns(c) == call[c].signal = "" /\ call'[c].signal # ""

\* C34: check_risk_management changes nothing but daily_pnl and
\* last_reset_date; the signal evaluator changes no engine state at all;
\* and the evaluator answers the same signal, with the same confidence,
\* whenever the closes of the instrument's history are the same.
C34_PureGateAndEvaluator ==
    /\ [][\A c \in Callers :
             GateRuns(c)
                => UNCHANGED <<positions, orders, is_trading, today,
                               max_positions>>]_vars
    /\ [][\A c \in Callers :
             EvaluatorRuns(c)
                => UNCHANGED <<positions, orders, is_trading, today,
                               max_positions, daily_pnl, last_reset_date>>]_vars
    /\ [](\A c, d \in Callers :
             (Evaluated(c) /\ Evaluated(d)
              /\ call[c].closes = call[d].closes)
                => /\ call[c].signal = call[d].signal
                   /\ call[c].confidence = call[d].confidence)

\* a /trade command is handled in this step
Commanded == call["manual"].pc = "idle" /\ call'["manual"].pc # "idle"

\* the command has no argument, or its first argument contains no '/'
Rejected(args) == args = <<>> \/ ~Contains(args[1], "/")

\* the handler ends without an invocation and the engine is as it was
NotInvoked ==
    /\ call'["manual"].pc = "done"
    /\ call'["manual"] =
          [IdleCall EXCEPT !.pc = "done", !.exit = call'["manual"].exit,
                           !.args = call'["manual"].args]
    /\ UNCHANGED <<positions, daily_pnl, last_reset_date, is_trading,
                   orders, today>>

\* execute_trade is entered, at its gate, with the upper-cased first
\* argument and nothing else
InvokedOnce ==
    call'["manual"] =
        [IdleCall EXCEPT !.pc = "risk", !.args = call'["manual"].args,
            !.symbol = SymbolName(Upper(call'["manual"].args[1]))]

\* C35 as stated: a /trade command with no argument or with a symbol
\* without '/' never invokes execute_trade and changes no engine state;
\* every other /trade command invokes execute_trade exactly once with the
\* upper-cased symbol.
C35_TradeCommand ==
    [][Commanded
          => IF Rejected(call'["manual"].args) THEN NotInvoked
             ELSE InvokedOnce]_vars

\* C35 amended: a /trade command with no argument or with a symbol without
\* '/' never invokes execute_trade and changes no engine state; every
\* other /trade command invokes execute_trade exactly once with the
\* upper-cased symbol provided its 'Analyzing' reply was sent, and does
\* not invoke it, changing no engine state, when sending that reply fails;
\* an invocation once begun is not begun again before it has returned.
C35_TradeCommandAmended ==
    /\ [][Commanded
             => IF Rejected(call'["manual"].args) THEN NotInvoked
                ELSE \/ InvokedOnce
                     \/ NotInvoked /\ call'["manual"].exit = "reply_failed"]_vars
    /\ [][(call'["manual"].pc = "risk" /\ call["manual"].pc # "risk")
             => call["manual"].pc = "idle"]_vars
    /\ [](call["manual"].exit \in {"usage", "bad_symbol", "reply_failed"}
             => /\ call["manual"].pc = "done"
                /\ ~Gated("manual")
                /\ call["manual"].sent = 0)
    /\ [](call["manual"].exit \in {"usage", "bad_symbol"}
             <=> (call["manual"].pc = "done"
                  /\ Rejected(call["manual"].args)))

\* C35 witness: '/trade Eth/Usdt now' has been traded and recorded as
\* ETH/USDT, the second word ignored.
C35_Witness ==
    /\ call["manual"].pc = "done"
    /\ call["manual"].exit = "recorded"
    /\ call["manual"].args = <<EthMixed, <<"n", "o", "w">>>>
    /\ call["manual"].symbol = "ETH/USDT"
    /\ "ETH/USDT" \in DOMAIN positions

====
